---- MODULE Spec2Model ----
(***************************************************************************)
(* finance-tracker: the OFX import pipeline (Itau and Nubank importers),   *)
(* the ledger merge (append_to_ledger) and the rule applier (apply_rules). *)
(*                                                                         *)
(* The persisted ledger (data/processed/ledger.csv) is modelled as the     *)
(* text of its cells.  Every run reads that text the way its own           *)
(* pd.read_csv call does, works on the values read, and writes text back.  *)
(* Text is modelled with TLA+ strings and processed character by           *)
(* character.  A missing value (NaN, NaT, <NA>) is the empty tuple NA, a   *)
(* present value v is the one-element tuple <<v>>.                         *)
(***************************************************************************)
EXTENDS Integers, Sequences, FiniteSets, TLC

VARIABLES csvExists, hasCat, ledger, last

vars == <<csvExists, hasCat, ledger, last>>

(***************************************************************************)
(* Bounds of the model.                                                    *)
(***************************************************************************)
\* the longest statement file, in <STMTTRN> blocks
MaxBlocks == 2
\* the longest rules.csv, in rows
MaxRules == 2

(***************************************************************************)
(* Text helpers.                                                           *)
(***************************************************************************)
\* the element of a set of one element; The({e : x \in {v}}) is e with x the
\* value of v, which is computed once
The(S) == CHOOSE x \in S : TRUE

\* the function f as the table of its values, each computed once
Table(f) == f @@ <<>>

NA == <<>>

Some(v) == <<v>>

IsNA(c) == c = NA

Val(c) == c[1]

Char(s, i) == SubSeq(s, i, i)

\* the value no definition of the model gives: text whose handling by the
\* code is not modelled has no result here
Outside(text) == CHOOSE v \in {} : v = text

\* a character above \x7f is one character of a string when the module is
\* read as UTF-8; read otherwise, each of its bytes is one and the same
\* character, and text holding that character stands for no text
Undecoded == IF Len("é") = 1 THEN {} ELSE {Char("é", 1)}

\* the whitespace str.strip() removes: the space, \t, \n, \r, \f and, written
\* here as the characters themselves, \x0b, \x1c, \x1d, \x1e, \x1f, \x85
\* and \xa0 (a string cannot hold the Unicode spaces above \xff)
IsSpace(c) ==
  IF c \in Undecoded THEN Outside(c)
  ELSE c \in {" ", "\t", "\n", "\r", "\f", "", "", "", "", "", "", " "}

\* the whitespace the parsers of pandas skip around a numeral: the space and
\* \t, \n, \x0b, \f, \r
IsAsciiSpace(c) == c \in {" ", "\t", "\n", "\r", "\f", ""}

RECURSIVE LStrip(_)
LStrip(s) == IF Len(s) > 0 /\ IsSpace(Char(s, 1)) THEN LStrip(Tail(s)) ELSE s

RECURSIVE RStrip(_)
RStrip(s) ==
  IF Len(s) > 0 /\ IsSpace(Char(s, Len(s)))
  THEN RStrip(SubSeq(s, 1, Len(s) - 1))
  ELSE s

\* str.strip()
Strip(s) == RStrip(LStrip(s))

RECURSIVE LStripAscii(_)
LStripAscii(s) ==
  IF Len(s) > 0 /\ IsAsciiSpace(Char(s, 1)) THEN LStripAscii(Tail(s)) ELSE s

RECURSIVE RStripAscii(_)
RStripAscii(s) ==
  IF Len(s) > 0 /\ IsAsciiSpace(Char(s, Len(s)))
  THEN RStripAscii(SubSeq(s, 1, Len(s) - 1))
  ELSE s

\* the text of a cell between the whitespace pandas skips
StripAscii(s) == RStripAscii(LStripAscii(s))

DigitChars == "0123456789"

IsDigit(c) == \E d \in 0..9 : Char(DigitChars, d + 1) = c

DigitVal(c) == CHOOSE d \in 0..9 : Char(DigitChars, d + 1) = c

AllDigits(s) == \A i \in 1..Len(s) : IsDigit(Char(s, i))

RECURSIVE StrToNat(_)
StrToNat(s) ==
  IF Len(s) = 0 THEN 0
  ELSE 10 * StrToNat(SubSeq(s, 1, Len(s) - 1)) + DigitVal(Char(s, Len(s)))

RECURSIVE NatToStr(_)
NatToStr(n) ==
  IF n < 10 THEN Char(DigitChars, n + 1)
  ELSE NatToStr(n \div 10) \o Char(DigitChars, (n % 10) + 1)

\* the upper-case letters up to \xff and, place by place, their lower case;
\* the other characters up to \xff are their own lower case
UpperChars == "ABCDEFGHIJKLMNOPQRSTUVWXYZÀÁÂÃÄÅÆÇÈÉÊËÌÍÎÏÐÑÒÓÔÕÖØÙÚÛÜÝÞ"

LowerChars == "abcdefghijklmnopqrstuvwxyzàáâãäåæçèéêëìíîïðñòóôõöøùúûüýþ"

LowerChar(c) ==
  IF c \in Undecoded THEN Outside(c)
  ELSE IF \E i \in 1..Len(UpperChars) : Char(UpperChars, i) = c
  THEN Char(LowerChars, CHOOSE i \in 1..Len(UpperChars) : Char(UpperChars, i) = c)
  ELSE c

RECURSIVE Lower(_)
\* str.lower(), and the case folding of re.I (two characters up to \xff
\* match under re.I when their lower cases are equal)
Lower(s) == IF Len(s) = 0 THEN "" ELSE LowerChar(Char(s, 1)) \o Lower(Tail(s))

\* the characters a regular expression does not read as themselves
MetaChars == ".^$*+?{}[]\\|()"

IsLiteral(p) ==
  \A i \in 1..Len(p) : \A k \in 1..Len(MetaChars) : Char(p, i) # Char(MetaChars, k)

\* re.compile(p, re.I).search(x) for a pattern without metacharacters: p
\* occurs somewhere in x, letter case ignored; any other pattern has no
\* result here
Search(p, x) ==
  IF \E i \in 1..Len(p \o x) : Char(p \o x, i) \in Undecoded THEN Outside(p \o x)
  ELSE IF IsLiteral(p)
  THEN \E i \in 1..(Len(x) - Len(p) + 1) :
         Lower(SubSeq(x, i, i + Len(p) - 1)) = Lower(p)
  ELSE Outside(p)

(***************************************************************************)
(* CSV cells.  pd.read_csv reads an empty cell, and a cell holding one of  *)
(* its default NA markers, as a missing value; to_csv writes a missing     *)
(* value as the empty cell and str(NaN) is "nan".                          *)
(***************************************************************************)
NaMarkers ==
  {"", "nan", "NaN", "-nan", "-NaN", "NA", "N/A", "n/a", "#N/A", "#NA",
   "NULL", "null", "None", "<NA>", "#N/A N/A", "1.#IND", "-1.#IND",
   "1.#QNAN", "-1.#QNAN"}

\* the cells pd.read_csv reads as True and as False in a column of them
TrueValues == {"True", "TRUE", "true"}

FalseValues == {"False", "FALSE", "false"}

ReadCell(text) == IF text \in NaMarkers THEN NA ELSE Some(text)

WriteCell(c) == IF IsNA(c) THEN "" ELSE Val(c)

\* str(x) / .astype(str) of a cell that is a string or NaN
PyStr(c) == IF IsNA(c) THEN "nan" ELSE Val(c)

(***************************************************************************)
(* Canonicalizer: _coerce_date, _coerce_amount.  A date is kept as its ISO *)
(* text.  A float is kept as its sign and the digits str() prints before   *)
(* and after the point, so that -0.0 and 0.0 are two values.               *)
(***************************************************************************)
IsLeap(y) == (y % 4 = 0 /\ y % 100 # 0) \/ y % 400 = 0

DaysInMonth(y, m) ==
  IF m = 2 THEN (IF IsLeap(y) THEN 29 ELSE 28)
  ELSE IF m \in {4, 6, 9, 11} THEN 30 ELSE 31

\* pd.to_datetime(..., errors="coerce") is NaT for a date that does not exist
\* or that a Timestamp cannot hold: midnight is held from 1677-09-22 to
\* 2262-04-11
_coerce_date(dtposted) ==
  IF Len(dtposted) < 8 \/ ~AllDigits(SubSeq(dtposted, 1, 8)) THEN NA
  ELSE LET y == StrToNat(SubSeq(dtposted, 1, 4))
           m == StrToNat(SubSeq(dtposted, 5, 6))
           d == StrToNat(SubSeq(dtposted, 7, 8))
           day == 10000 * y + 100 * m + d
       IN IF day >= 16770922 /\ day <= 22620411 /\ m >= 1 /\ m <= 12
             /\ d >= 1 /\ d <= DaysInMonth(y, m)
          THEN Some(SubSeq(dtposted, 1, 4) \o "-" \o SubSeq(dtposted, 5, 6)
                    \o "-" \o SubSeq(dtposted, 7, 8))
          ELSE NA

\* the position of the first character of s that is in C, 0 when none is
IndexOf(s, C) ==
  IF \E i \in 1..Len(s) : Char(s, i) \in C
  THEN CHOOSE i \in 1..Len(s) :
         Char(s, i) \in C /\ \A j \in 1..(i - 1) : Char(s, j) \notin C
  ELSE 0

RECURSIVE Zeros(_)
Zeros(n) == IF n <= 0 THEN "" ELSE "0" \o Zeros(n - 1)

RECURSIVE LStripZeros(_)
LStripZeros(s) ==
  IF Len(s) > 0 /\ Char(s, 1) = "0" THEN LStripZeros(Tail(s)) ELSE s

RECURSIVE RStripZeros(_)
RStripZeros(s) ==
  IF Len(s) > 0 /\ Char(s, Len(s)) = "0"
  THEN RStripZeros(SubSeq(s, 1, Len(s) - 1))
  ELSE s

RECURSIVE WithoutUnderscores(_)
WithoutUnderscores(s) ==
  IF Len(s) = 0 THEN ""
  ELSE (IF Char(s, 1) = "_" THEN "" ELSE Char(s, 1)) \o WithoutUnderscores(Tail(s))

\* the digits of a run of digits, NA when s is no such run; float() of Python
\* takes single underscores between digits, the parsers of pandas do not
DigitPart(s, underscores) ==
  IF AllDigits(s) THEN Some(s)
  ELSE IF /\ underscores
          /\ IsDigit(Char(s, 1)) /\ IsDigit(Char(s, Len(s)))
          /\ \A i \in 1..Len(s) : IsDigit(Char(s, i)) \/ Char(s, i) = "_"
          /\ \A i \in 1..(Len(s) - 1) : Char(s, i) # "_" \/ Char(s, i + 1) # "_"
  THEN Some(WithoutUnderscores(s))
  ELSE NA

\* "0" for the empty run of digits
OrZero(digits) == IF digits = "" THEN "0" ELSE digits

\* the float of sign neg that str() prints as ip.fp; one that str() prints
\* with an exponent (below 0.0001, from 1e16 on) or that has more than 15
\* significant digits has no result here
Float(neg, ip, fp) ==
  IF \/ Len(LStripZeros(ip \o RStripZeros(fp))) > 15
     \/ (ip = "0" /\ Len(fp) > 4 /\ SubSeq(fp, 1, 4) = "0000")
  THEN Outside(ip \o fp)
  ELSE [neg |-> neg, ip |-> ip, fp |-> fp]

\* the float whose digits are digits, the decimal point standing after the
\* first point of them (before them all when point is not positive)
Shifted(neg, digits, point) ==
  Float(neg,
        OrZero(LStripZeros(IF point <= 0 THEN ""
                           ELSE IF point >= Len(digits)
                           THEN digits \o Zeros(point - Len(digits))
                           ELSE SubSeq(digits, 1, point))),
        OrZero(RStripZeros(IF point <= 0 THEN Zeros(0 - point) \o digits
                           ELSE IF point >= Len(digits) THEN ""
                           ELSE SubSeq(digits, point + 1, Len(digits)))))

\* float() of the numeral with the digits ip before the point, fp after it,
\* and the exponent ex: NA when one of them is no run of digits, when the
\* numeral has no digit, or when the exponent has none
ParseUnsigned(neg, ip, fp, exNeg, ex) ==
  IF IsNA(ip) \/ IsNA(fp) \/ IsNA(ex) THEN NA
  ELSE IF Len(Val(ip)) + Len(Val(fp)) = 0 THEN NA
  ELSE IF Len(Val(ex)) > 2 THEN Outside(Val(ex))
  ELSE Some(Shifted(neg, Val(ip) \o Val(fp),
                    Len(Val(ip)) + (IF exNeg THEN 0 - StrToNat(Val(ex))
                                    ELSE StrToNat(Val(ex)))))

\* the numeral mant with its point at dot (0: none), and the exponent ex
\* (NA: a marker without digits, "": no marker)
ParseMantissa(neg, mant, dot, exNeg, ex, underscores) ==
  ParseUnsigned(neg,
                DigitPart(IF dot = 0 THEN mant ELSE SubSeq(mant, 1, dot - 1),
                          underscores),
                DigitPart(IF dot = 0 THEN "" ELSE SubSeq(mant, dot + 1, Len(mant)),
                          underscores),
                exNeg, ex)

\* the exponent ex without its sign
Unsigned(ex) ==
  IF Len(ex) > 0 /\ Char(ex, 1) \in {"-", "+"} THEN Tail(ex) ELSE ex

\* the numeral body with its exponent marker at e (0: none)
ParseExponent(neg, body, e, underscores) ==
  IF e = 0
  THEN ParseMantissa(neg, body, IndexOf(body, {"."}), FALSE, Some(""),
                     underscores)
  ELSE ParseMantissa(neg, SubSeq(body, 1, e - 1),
                     IndexOf(SubSeq(body, 1, e - 1), {"."}),
                     e < Len(body) /\ Char(body, e + 1) = "-",
                     IF Unsigned(SubSeq(body, e + 1, Len(body))) = "" THEN NA
                     ELSE DigitPart(Unsigned(SubSeq(body, e + 1, Len(body))),
                                    underscores),
                     underscores)

ParseBody(neg, body, underscores) ==
  IF Lower(body) \in {"inf", "infinity"}
  THEN Some([neg |-> neg, ip |-> "inf", fp |-> ""])
  ELSE ParseExponent(neg, body, IndexOf(body, {"e", "E"}), underscores)

ParseSigned(s, underscores) ==
  ParseBody(Len(s) > 0 /\ Char(s, 1) = "-", Unsigned(s), underscores)

\* the float a numeral stands for: NA for text that is no numeral (the
\* ValueError of float) and for the spellings of nan
ParseFloat(text, underscores) ==
  ParseSigned(IF underscores THEN Strip(text) ELSE StripAscii(text), underscores)

\* float(str(x).strip()), NaN on ValueError
_coerce_amount(x) == ParseFloat(Strip(x), TRUE)

\* a numeral spelled as an integer: an optional sign and digits
IsIntText(text) ==
  Len(Unsigned(StripAscii(text))) > 0 /\ AllDigits(Unsigned(StripAscii(text)))

IsZero(v) == v.ip = "0" /\ v.fp = "0"

\* v < 0: false for both zeros
IsNegative(v) == v.neg /\ ~IsZero(v)

\* str(float): the shortest decimal that reads back, always with a point
FloatStr(v) ==
  (IF v.neg THEN "-" ELSE "")
  \o (IF v.ip = "inf" THEN "inf" ELSE v.ip \o "." \o v.fp)

(***************************************************************************)
(* Statement Extractor: _parse_ofx_sgml.  A <STMTTRN> block is given by    *)
(* the raw text that follows each of its leaf tags ("" for an absent tag). *)
(***************************************************************************)
RECURSIVE Captured(_)
\* what ([^\r\n<]+) takes from the text that follows a tag
Captured(raw) ==
  IF Len(raw) = 0 \/ Char(raw, 1) \in {"\r", "\n", "<"} THEN ""
  ELSE Char(raw, 1) \o Captured(Tail(raw))

\* tag(name): the stripped text after the tag, "" when the tag is absent or
\* nothing is captured
tag(block, name) == Strip(Captured(block[name]))

\* the row of a block: tag(name) of each leaf tag, MEMO falling back to NAME
_parse_ofx_sgml_itau(stmt) ==
  [i \in 1..Len(stmt) |->
     The({[DTPOSTED |-> t.DTPOSTED, TRNAMT |-> t.TRNAMT,
           MEMO |-> IF t.MEMO # "" THEN t.MEMO ELSE t.NAME,
           FITID |-> t.FITID, CHECKNUM |-> t.CHECKNUM, REFNUM |-> t.REFNUM] :
            t \in {Table([name \in {"DTPOSTED", "TRNAMT", "MEMO", "NAME",
                                    "FITID", "CHECKNUM", "REFNUM"} |->
                             tag(stmt[i], name)])}})]

_parse_ofx_sgml_nubank(stmt) ==
  [i \in 1..Len(stmt) |->
     The({[DTPOSTED |-> t.DTPOSTED, TRNAMT |-> t.TRNAMT,
           MEMO |-> IF t.MEMO # "" THEN t.MEMO ELSE t.NAME,
           FITID |-> t.FITID] :
            t \in {Table([name \in {"DTPOSTED", "TRNAMT", "MEMO", "NAME",
                                    "FITID"} |-> tag(stmt[i], name)])}})]

(***************************************************************************)
(* Identity Deriver.  pd.util.hash_pandas_object maps equal strings to the *)
(* same 64-bit number; the decimal numeral of that number is kept symbolic *)
(* as "H(key)", different keys giving different numerals.                  *)
(***************************************************************************)
hash_pandas_object(key) == "H(" \o key \o ")"

CompositeKey(date, description, amount, source) ==
  Val(date) \o "|" \o description \o "|" \o FloatStr(Val(amount)) \o "|" \o source

\* import_itau_ofx, lines 75-88: FITID, else "REFNUM|CHECKNUM"
ItauExternalId(raw) ==
  IF Strip(raw.FITID) = ""
  THEN Strip(raw.REFNUM) \o "|" \o Strip(raw.CHECKNUM)
  ELSE Strip(raw.FITID)

\* import_itau_ofx, lines 94-103
ItauKey(external_id, date, description, amount) ==
  IF external_id = "" \/ external_id = "|"
  THEN CompositeKey(date, description, amount, "itau")
  ELSE external_id

\* import_nubank_ofx, lines 84-93
NubankKey(external_id, date, description, amount) ==
  IF external_id = ""
  THEN CompositeKey(date, description, amount, "nubank")
  ELSE external_id

(***************************************************************************)
(* The importers.  A row of the returned DataFrame keeps the index of its  *)
(* block (dropna does not renumber); its tx_id is a Python str.            *)
(***************************************************************************)
ItauFileName == "itau.ofx"

NubankFileName == "nubank.ofx"

KeptRow(r) == ~IsNA(r.date) /\ ~IsNA(r.amount)

TypeOf(amount) == IF IsNegative(Val(amount)) THEN "expense" ELSE "income"

Finish(r, key) ==
  [idx |-> r.idx, date |-> r.date, description |-> Some(r.description),
   amount |-> r.amount, source |-> Some(r.source),
   external_id |-> Some(r.external_id), file_name |-> Some(r.file_name),
   type |-> Some(TypeOf(r.amount)),
   tx_id |-> <<"str", hash_pandas_object(key)>>,
   category |-> NA, subcategory |-> NA]

\* import_itau_ofx after the emptiness test (lines 69-106)
import_itau_ofx(stmt) ==
  The({[i \in 1..Len(kept) |->
          The({Finish(r, ItauKey(r.external_id, r.date, r.description, r.amount)) :
                 r \in {kept[i]}})] :
         kept \in {SelectSeq([i \in 1..Len(df) |->
                                [idx |-> i - 1,
                                 date |-> _coerce_date(df[i].DTPOSTED),
                                 description |-> Strip(df[i].MEMO),
                                 amount |-> _coerce_amount(df[i].TRNAMT),
                                 source |-> "itau",
                                 external_id |-> ItauExternalId(df[i]),
                                 file_name |-> ItauFileName]],
                             KeptRow) :
                      df \in {_parse_ofx_sgml_itau(stmt)}}})

\* import_nubank_ofx after the emptiness test (lines 71-96)
import_nubank_ofx(stmt) ==
  The({[i \in 1..Len(kept) |->
          The({Finish(r, NubankKey(r.external_id, r.date, r.description, r.amount)) :
                 r \in {kept[i]}})] :
         kept \in {SelectSeq([i \in 1..Len(df) |->
                                [idx |-> i - 1,
                                 date |-> _coerce_date(df[i].DTPOSTED),
                                 description |-> Strip(df[i].MEMO),
                                 amount |-> _coerce_amount(df[i].TRNAMT),
                                 source |-> "nubank",
                                 external_id |-> Strip(df[i].FITID),
                                 file_name |-> NubankFileName]],
                             KeptRow) :
                      df \in {_parse_ofx_sgml_nubank(stmt)}}})

ImportRows(src, stmt) ==
  IF src = "itau" THEN import_itau_ofx(stmt) ELSE import_nubank_ofx(stmt)

(***************************************************************************)
(* The inputs of the runs: statement files and rule files.                 *)
(***************************************************************************)
Sources == {"itau", "nubank"}

BlockUber ==
  [DTPOSTED |-> "20240115120000[-03:EST]", TRNAMT |-> "-45.90",
   MEMO |-> "UBER TRIP 123", NAME |-> "", FITID |-> "ABC123",
   CHECKNUM |-> "", REFNUM |-> ""]

BlockSalary ==
  [DTPOSTED |-> "20240116", TRNAMT |-> " 100.00", MEMO |-> "",
   NAME |-> "Salary \r\n", FITID |-> "\t", CHECKNUM |-> "C1", REFNUM |-> "R1"]

BlockBadDate ==
  [DTPOSTED |-> "20241301", TRNAMT |-> "-7.5", MEMO |-> "UBER EATS",
   NAME |-> "", FITID |-> "XYZ9", CHECKNUM |-> "", REFNUM |-> ""]

BlockBadAmount ==
  [DTPOSTED |-> "20240117", TRNAMT |-> "12,30", MEMO |-> "Trip fee",
   NAME |-> "", FITID |-> "XYZ7", CHECKNUM |-> "", REFNUM |-> ""]

\* the blocks found in the statements of each bank
BlocksOf ==
  [itau |-> {BlockUber, BlockSalary, BlockBadDate},
   nubank |-> {BlockUber, BlockBadAmount}]

Blocks == BlocksOf.itau \cup BlocksOf.nubank

SeqsUpTo(S, n) == UNION {[1..k -> S] : k \in 0..n}

Statements(src) == SeqsUpTo(BlocksOf[src], MaxBlocks)

RuleUber ==
  [pattern |-> "UBER", priority |-> "1", category |-> "Transport",
   subcategory |-> "", type_hint |-> ""]

RuleTrip ==
  [pattern |-> "trip", priority |-> "2", category |-> "Food",
   subcategory |-> "Dining", type_hint |-> "Transfer"]

RuleBlank ==
  [pattern |-> "uber", priority |-> "0", category |-> "",
   subcategory |-> "", type_hint |-> "investment"]

RuleSalary ==
  [pattern |-> "salary", priority |-> "x", category |-> " Income",
   subcategory |-> "Wages", type_hint |-> ""]

Rules == {RuleUber, RuleTrip, RuleBlank, RuleSalary}

RuleFiles == SeqsUpTo(Rules, MaxRules)

(***************************************************************************)
(* The text functions above are evaluated once, on the texts the inputs    *)
(* can put into the ledger, and looked up afterwards.                      *)
(***************************************************************************)
ImportOf ==
  Table([src \in Sources |->
           Table([stmt \in Statements(src) |-> ImportRows(src, stmt)])])

\* the rows a block can become
CanonRows ==
  UNION {{rows[i] : i \in 1..Len(rows)} :
           rows \in {ImportRows(src, <<b>>) : src \in Sources, b \in Blocks}}

AmountCells == {r.amount : r \in CanonRows} \cup {NA}

\* read_csv of a float cell, to_csv of a float
ReadFloat(text) == IF text \in NaMarkers THEN NA ELSE ParseFloat(text, FALSE)

WriteFloat(c) == IF IsNA(c) THEN "" ELSE FloatStr(Val(c))

WriteFloatOf == Table([c \in AmountCells |-> WriteFloat(c)])

ReadFloatOf ==
  Table([t \in {WriteFloat(c) : c \in AmountCells} |-> ReadFloat(t)])

(***************************************************************************)
(* The ledger file.  A row on disk is the text of its ten cells; hasCat    *)
(* says whether the header has the category and subcategory columns (the   *)
(* two cells are "" while it has not).                                     *)
(***************************************************************************)
\* how pd.read_csv takes one cell when it infers the type of a column: a
\* missing value, an integer, a float, a boolean or text, with the text
\* to_csv writes for the value read (str() of it)
CellInfo(text) ==
  IF text \in NaMarkers THEN [kind |-> "na", int |-> "", float |-> "", bool |-> ""]
  ELSE IF text \in TrueValues
  THEN [kind |-> "bool", int |-> "", float |-> "", bool |-> "True"]
  ELSE IF text \in FalseValues
  THEN [kind |-> "bool", int |-> "", float |-> "", bool |-> "False"]
  ELSE The({IF IsNA(v)
            THEN [kind |-> "text", int |-> "", float |-> "", bool |-> ""]
            ELSE [kind |-> IF IsIntText(text) THEN "int" ELSE "float",
                  int |-> (IF IsNegative(Val(v)) THEN "-" ELSE "") \o Val(v).ip,
                  float |-> FloatStr(Val(v)),
                  bool |-> ""] :
              v \in {ParseFloat(text, FALSE)}})

\* the ISO text of a date that pd.to_datetime reads back
IsIsoDate(text) ==
  /\ Len(text) = 10 /\ Char(text, 5) = "-" /\ Char(text, 8) = "-"
  /\ ~IsNA(_coerce_date(SubSeq(text, 1, 4) \o SubSeq(text, 6, 7)
                        \o SubSeq(text, 9, 10)))

\* the text the inputs put in a cell of the ledger or of rules.csv
InputTexts ==
  {"", "Uncategorized"}
  \cup UNION {{WriteCell(r.date), WriteCell(r.description), WriteCell(r.source),
               WriteCell(r.external_id), WriteCell(r.file_name),
               WriteCell(r.type)} : r \in CanonRows}
  \cup UNION {{r.pattern, r.category, r.subcategory, r.type_hint,
               Strip(PyStr(ReadCell(r.category))),
               Strip(PyStr(ReadCell(r.subcategory))),
               Lower(Strip(PyStr(ReadCell(r.type_hint))))} : r \in Rules}

\* the text a cell can hold: the text of the inputs and what it becomes when
\* it is read as a number or a boolean and written back
CellTexts ==
  The({texts \cup UNION {{c.int, c.float, c.bool} :
                           c \in {CellInfo(t) : t \in texts}} :
         texts \in {InputTexts}})

CellInfoOf == Table([t \in CellTexts |-> CellInfo(t)])

IsIsoDateOf == Table([t \in CellTexts |-> IsIsoDate(t)])

\* str(description) of the rows read back from the ledger: the text of a
\* cell, or nan
DescriptionStrs == {"nan"} \cup DOMAIN CellInfoOf

\* the dtype pd.read_csv infers for a column without a dtype argument, from
\* the kinds of its cells: a column without rows is object, a column of
\* missing values is float64
InferDtype(kinds) ==
  IF "text" \in kinds \/ kinds = {} THEN "object"
  ELSE IF kinds = {"na"} THEN "float64"
  ELSE IF kinds = {"int"} THEN "int64"
  ELSE IF kinds \subseteq {"int", "float", "na"} THEN "float64"
  ELSE IF kinds = {"bool"} THEN "bool"
  ELSE IF kinds = {"bool", "na"} THEN Outside(kinds)
  ELSE "object"

DtypeOf(texts) ==
  InferDtype({CellInfoOf[texts[i]].kind : i \in 1..Len(texts)})

\* the cells of a column read under the inferred dtype: a column of
\* numerals is read as numbers, and written back as str() prints them
InferColumn(texts) ==
  The({The({[i \in 1..Len(texts) |->
               IF info[texts[i]].kind = "na" THEN NA
               ELSE IF dtype = "int64" THEN Some(info[texts[i]].int)
               ELSE IF dtype = "float64" THEN Some(info[texts[i]].float)
               ELSE IF dtype = "bool" THEN Some(info[texts[i]].bool)
               ELSE Some(texts[i])] :
              dtype \in {InferDtype({info[texts[i]].kind :
                                       i \in 1..Len(texts)})}}) :
         info \in {CellInfoOf}})

\* the cells of a column read under dtype "string"
StringColumn(texts) == [i \in 1..Len(texts) |-> ReadCell(texts[i])]

\* pd.to_datetime(old["date"], errors="coerce") on a cell read: ISO text is
\* the date it spells; the other formats pandas reads have no result here
ToDatetime(cell) ==
  IF IsNA(cell) \/ IsIsoDateOf[Val(cell)] THEN cell ELSE Outside(cell)

\* the columns read_csv reads as text or under an inferred dtype
TextColumns ==
  {"date", "description", "source", "external_id", "file_name", "type",
   "category", "subcategory"}

\* pd.read_csv of ledger.csv by reader: "itau" (dtype string for tx_id and
\* external_id, dates parsed), "nubank" (no dtype, dates parsed) or "rules"
\* (apply_rules.py: dtype string for tx_id and external_id).  The tx_id cells
\* are Python str under dtype string, and integers when pandas infers the
\* type of the column of decimal numerals
ReadLedger(rows, cat, reader) ==
  The({[i \in 1..Len(rows) |->
          [date |-> IF reader = "rules" THEN c.date[i] ELSE ToDatetime(c.date[i]),
           description |-> c.description[i],
           amount |-> ReadFloatOf[rows[i].amount],
           source |-> c.source[i],
           external_id |-> c.external_id[i],
           file_name |-> c.file_name[i],
           type |-> c.type[i],
           tx_id |-> <<IF reader = "nubank" THEN "int" ELSE "str",
                       rows[i].tx_id>>,
           category |-> IF cat THEN c.category[i] ELSE NA,
           subcategory |-> IF cat THEN c.subcategory[i] ELSE NA]] :
         c \in {Table([f \in TextColumns |->
                         The({IF f = "external_id" /\ reader # "nubank"
                              THEN StringColumn(texts) ELSE InferColumn(texts) :
                                texts \in {[i \in 1..Len(rows) |-> rows[i][f]]}})])}})

\* pd.concat([old, new_df]) gives the rows of new_df NaN in the category
\* columns, which new_df has not: a column read as integers becomes a
\* column of floats
ConcatOld(old, rows, cat, new_df) ==
  LET float(c, widen) == IF widen THEN Some(Val(c) \o ".0") ELSE c
  IN The({[i \in 1..Len(old) |->
             [old[i] EXCEPT !.category = float(@, "category" \in w),
                            !.subcategory = float(@, "subcategory" \in w)]] :
            w \in {IF cat /\ Len(new_df) > 0
                   THEN {f \in {"category", "subcategory"} :
                           DtypeOf([i \in 1..Len(rows) |-> rows[i][f]]) = "int64"}
                   ELSE {}}})

\* DataFrame.to_csv(index=False)
WriteLedger(df, cat) ==
  LET line(r) ==
        [date |-> WriteCell(r.date),
         description |-> WriteCell(r.description),
         amount |-> WriteFloatOf[r.amount],
         source |-> WriteCell(r.source),
         external_id |-> WriteCell(r.external_id),
         file_name |-> WriteCell(r.file_name),
         type |-> WriteCell(r.type),
         tx_id |-> r.tx_id[2],
         category |-> IF cat THEN WriteCell(r.category) ELSE "",
         subcategory |-> IF cat THEN WriteCell(r.subcategory) ELSE ""]
  IN The({[i \in 1..Len(d) |-> line(d[i])] : d \in {df}})

\* the columns of a returned DataFrame, without its index
Frame(new_df) ==
  LET columns(r) ==
        [date |-> r.date, description |-> r.description, amount |-> r.amount,
         source |-> r.source, external_id |-> r.external_id,
         file_name |-> r.file_name, type |-> r.type, tx_id |-> r.tx_id,
         category |-> NA, subcategory |-> NA]
  IN The({[i \in 1..Len(d) |-> columns(d[i])] : d \in {new_df}})

\* DataFrame.drop_duplicates(subset=["tx_id"], keep="first"): two tx_id
\* values are duplicates when they are equal Python objects
drop_duplicates(df) ==
  LET first(d) ==
        {i \in 1..Len(d) : \A j \in 1..(i - 1) : d[j].tx_id # d[i].tx_id}
      rank(S, i) == Cardinality({j \in S : j <= i})
  IN The({The({[k \in 1..Cardinality(F) |-> d[CHOOSE i \in F : rank(F, i) = k]] :
                 F \in {first(d)}}) :
            d \in {df}})

\* combined["tx_id"].astype(str)
TxAsStr(df) ==
  The({[i \in 1..Len(d) |-> [d[i] EXCEPT !.tx_id = <<"str", @[2]>>]] : d \in {df}})

\* append_to_ledger of import_itau_ofx.py: the rows written to ledger.csv
append_to_ledger_itau(new_df, exists, rows, cat) ==
  LET combined ==
        IF exists
        THEN TxAsStr(ConcatOld(ReadLedger(rows, cat, "itau"), rows, cat, new_df)
                     \o Frame(new_df))
        ELSE Frame(new_df)
  IN WriteLedger(drop_duplicates(combined), exists /\ cat)

\* append_to_ledger of import_nubank_ofx.py: the rows written to ledger.csv
append_to_ledger_nubank(new_df, exists, rows, cat) ==
  LET combined ==
        IF exists
        THEN ConcatOld(ReadLedger(rows, cat, "nubank"), rows, cat, new_df)
             \o Frame(new_df)
        ELSE Frame(new_df)
  IN WriteLedger(drop_duplicates(combined), exists /\ cat)

AppendToLedger(src, new_df, exists, rows, cat) ==
  IF src = "itau" THEN append_to_ledger_itau(new_df, exists, rows, cat)
  ELSE append_to_ledger_nubank(new_df, exists, rows, cat)

(***************************************************************************)
(* Rule Compiler and Rule Applier.  A row of rules.csv is the text of its  *)
(* five cells.                                                             *)
(***************************************************************************)
DefaultPriority == 9999

\* pd.to_numeric(errors="coerce").fillna(9999).astype(int) of a priority
\* cell: a numeral is cut to its integer part, other text and a missing
\* value are 9999; astype(int) of an infinity has no result here
Priority(text) ==
  IF text \in NaMarkers THEN DefaultPriority
  ELSE The({IF IsNA(v) THEN DefaultPriority
            ELSE IF Val(v).ip = "inf" THEN Outside(text)
            ELSE IF Val(v).neg THEN 0 - StrToNat(Val(v).ip)
            ELSE StrToNat(Val(v).ip) :
              v \in {ParseFloat(text, FALSE)}})

Perms(n) == {p \in [1..n -> 1..n] : \A i, j \in 1..n : p[i] = p[j] => i = j}

PriorityOf == Table([r \in Rules |-> Priority(r.priority)])

\* the priority column of rules.csv made integers (line 12).  A column of
\* True and False, with or without missing values, is read as booleans, which
\* pd.to_numeric keeps as 1 and 0; in any other column a cell is a number or
\* text and is taken by Priority
PriorityColumn(file) ==
  The({[i \in 1..Len(file) |->
          IF ~bools THEN PriorityOf[file[i]]
          ELSE IF file[i].priority \in TrueValues THEN 1
          ELSE IF file[i].priority \in FalseValues THEN 0
          ELSE DefaultPriority] :
         bools \in {/\ \E i \in 1..Len(file) :
                         file[i].priority \in TrueValues \cup FalseValues
                    /\ \A i \in 1..Len(file) :
                         file[i].priority
                           \in TrueValues \cup FalseValues \cup NaMarkers}})

\* pd.read_csv(path) of rules.csv, with the priority column made integers:
\* the rows in file order (lines 11-12)
ReadRules(file) ==
  The({[i \in 1..Len(file) |->
          [pattern |-> c.pattern[i], priority |-> c.priority[i],
           category |-> c.category[i], subcategory |-> c.subcategory[i],
           type_hint |-> c.type_hint[i]]] :
         c \in {Table([f \in {"pattern", "category", "subcategory", "type_hint",
                               "priority"} |->
                         IF f = "priority" THEN PriorityColumn(file)
                         ELSE InferColumn([i \in 1..Len(file) |-> file[i][f]])])}})

ReadRulesOf == Table([file \in RuleFiles |-> ReadRules(file)])

\* load_rules: the orders sort_values("priority") can leave the rows in
\* (its default sort is not stable: rows of equal priority come in any order)
load_rules(file) ==
  The({{[i \in 1..Len(rules) |-> rules[p[i]]] :
          p \in {q \in Perms(Len(rules)) :
                   \A i, j \in 1..Len(rules) :
                     i < j => rules[q[i]].priority <= rules[q[j]].priority}} :
         rules \in {ReadRulesOf[file]}})

LoadRulesOf == Table([file \in RuleFiles |-> load_rules(file)])

\* the rows of the rule files, as loaded
LoadedRules ==
  UNION {{ReadRulesOf[file][i] : i \in 1..Len(file)} : file \in RuleFiles}

TypeHints == {"expense", "income", "transfer", "investment"}

\* a category cell in the default state (apply_rules.py line 39)
IsDefault(c) == IsNA(c) \/ Val(c) \in {"Uncategorized", ""}

\* what one trip of the loop of apply_rules takes from a loaded rule: the
\* pattern compiled on line 15, and lines 30-32
Compile(r) ==
  [rx |-> PyStr(r.pattern),
   cat |-> Strip(PyStr(r.category)),
   sub |-> Strip(PyStr(r.subcategory)),
   hint |-> Lower(Strip(PyStr(r.type_hint)))]

CompileOf == Table([r \in LoadedRules |-> Compile(r)])

\* the patterns of the rules, as text
PatternStrs ==
  {c.rx : c \in {CompileOf[r] : r \in DOMAIN CompileOf}}
  \cup {PyStr(ReadCell(r.pattern)) : r \in Rules}

\* whether the regex of a pattern finds a match in a description
SearchOf ==
  Table([pd \in PatternStrs \X DescriptionStrs |-> Search(pd[1], pd[2])])

\* ApplyRuleToRow without the second conjunct of the mask (line 39): a rule
\* whose pattern matches rewrites the row whatever its category
ApplyRuleToRowNoMask(row, r) ==
  The({IF c.cat = "" \/ ~SearchOf[<<c.rx, PyStr(x.description)>>] THEN x
       ELSE [x EXCEPT !.category = Some(c.cat),
                      !.subcategory = Some(IF c.sub # "" THEN c.sub ELSE c.cat),
                      !.type = IF c.hint \in TypeHints THEN Some(c.hint) ELSE @] :
         x \in {row}, c \in {CompileOf[r]}})

\* one trip of the loop of apply_rules (lines 28-45), for one row: the masks
\* are computed row by row, so the loop acts on each row on its own
ApplyRuleToRow(row, r) ==
  LET m(x, rx) == SearchOf[<<rx, PyStr(x.description)>>] /\ IsDefault(x.category)
  IN The({IF c.cat = "" \/ ~m(x, c.rx) THEN x
          ELSE [x EXCEPT !.category = Some(c.cat),
                         !.subcategory = Some(IF c.sub # "" THEN c.sub ELSE c.cat),
                         !.type = IF c.hint \in TypeHints THEN Some(c.hint) ELSE @] :
            x \in {row}, c \in {CompileOf[r]}})

RECURSIVE ApplyRulesToRow(_, _)
ApplyRulesToRow(row, rules) ==
  IF Len(rules) = 0 THEN row
  ELSE ApplyRulesToRow(ApplyRuleToRow(row, Head(rules)), Tail(rules))

\* apply_rules(df, rules); cat says whether df has the category columns
apply_rules(df, cat, rules) ==
  The({[i \in 1..Len(d) |->
          ApplyRulesToRow(
            IF cat THEN d[i]
            ELSE [d[i] EXCEPT !.category = Some("Uncategorized"),
                              !.subcategory = Some("Uncategorized")],
            rules)] :
         d \in {df}})

\* a rule that is not skipped meets a row whose category is already set
\* (the mask of apply_rules.py line 39 switches the match off)
Held(df, rules) ==
  \E d \in {df} : \E row \in {d[i] : i \in 1..Len(d)}, k \in 1..Len(rules) :
    \E c \in {CompileOf[rules[k]]} :
      /\ c.cat # ""
      /\ ~IsDefault(row.category)
      /\ SearchOf[<<c.rx, PyStr(row.description)>>]

\* main of apply_rules.py on an existing ledger: the rows written back, and
\* whether a rule was held off a row
ApplyRulesMain(rows, cat, rules) ==
  The({[ledger |-> WriteLedger(apply_rules(df, cat, rules), TRUE),
        held |-> cat /\ Held(df, rules)] :
         df \in {ReadLedger(rows, cat, "rules")}})

(***************************************************************************)
(* The runs.  last records the latest run: the entry point (op), how it    *)
(* ended (status), whether the statement file had no block (empty) and     *)
(* whether a rule met a row it had to leave alone (held).  Under trace it  *)
(* also records the run's input file and what the entry point printed.     *)
(***************************************************************************)
Run(trace, op, status, empty, held, stmt, rules, printed) ==
  [op |-> op, status |-> status, empty |-> empty, held |-> held,
   stmt |-> IF trace THEN stmt ELSE <<>>,
   rules |-> IF trace THEN rules ELSE <<>>,
   printed |-> IF trace THEN printed ELSE <<>>]

Init ==
  /\ csvExists = FALSE
  /\ hasCat = FALSE
  /\ ledger = <<>>
  /\ last = Run(FALSE, "none", "none", FALSE, FALSE, <<>>, <<>>, <<>>)

BankName(src) == IF src = "itau" THEN "Itaú" ELSE "Nubank"

FileName(src) == IF src = "itau" THEN ItauFileName ELSE NubankFileName

\* what main of an importer prints after a successful import; pq says
\* whether data/processed/ledger.parquet exists after append_to_ledger, which
\* writes it when a parquet engine is installed and passes over the failure
\* when none is
ImportReport(src, new_df, pq) ==
  <<"[OK] Importado " \o BankName(src) \o " OFX: " \o FileName(src),
    "[OK] Linhas importadas: " \o NatToStr(Len(new_df)),
    "[OK] Ledger atualizado: data/processed/ledger.csv">>
  \o (IF pq THEN <<"[OK] Ledger parquet: data/processed/ledger.parquet">>
      ELSE <<>>)

\* main of an importer whose inbox holds no .ofx file
ImportNoFile(trace, src) ==
  /\ last' = Run(trace, src, "nofile", FALSE, FALSE, <<>>, <<>>,
                 <<"Nenhum .ofx encontrado em inbox/. Coloque o OFX do "
                   \o BankName(src) \o " lá e rode novamente.">>)
  /\ UNCHANGED <<csvExists, hasCat, ledger>>

\* Import without the df.empty test: an empty frame goes on to the merge
ImportNoEmptyTest(trace, src, stmt) ==
  \E new_df \in {ImportOf[src][stmt]} :
     /\ ledger' = AppendToLedger(src, new_df, csvExists, ledger, hasCat)
     /\ csvExists' = TRUE
     /\ hasCat' = (csvExists /\ hasCat)
     /\ \E pq \in BOOLEAN :
          last' = Run(trace, src, "ok", Len(stmt) = 0, FALSE, stmt, <<>>,
                      ImportReport(src, new_df, pq))

\* main of an importer on the statement file stmt
Import(trace, src, stmt) ==
  IF Len(stmt) = 0
  THEN \* df.empty: ValueError, raised before append_to_ledger is called
       /\ last' = Run(trace, src, "error", TRUE, FALSE, stmt, <<>>, <<>>)
       /\ UNCHANGED <<csvExists, hasCat, ledger>>
  ELSE \E new_df \in {ImportOf[src][stmt]} :
          /\ ledger' = AppendToLedger(src, new_df, csvExists, ledger, hasCat)
          /\ csvExists' = TRUE
          /\ hasCat' = (csvExists /\ hasCat)
          /\ \E pq \in BOOLEAN :
               last' = Run(trace, src, "ok", Len(stmt) = 0, FALSE, stmt, <<>>,
                           ImportReport(src, new_df, pq))

\* main of import_itau_ofx.py (src "itau") or of import_nubank_ofx.py (src
\* "nubank"): the inbox holds no statement file, or one
ImportMain(trace, src) ==
  \/ ImportNoFile(trace, src)
  \/ \E stmt \in Statements(src) : Import(trace, src, stmt)

\* Path(__file__).resolve().parents[1] of apply_rules.py: the directory that
\* holds scripts/.  The importers name data/processed/ledger.csv from the
\* working directory: the runs are started in PROJECT_ROOT, where the two
\* names are one file
PROJECT_ROOT == "/root/workspace/src"

LedgerPath == PROJECT_ROOT \o "/data/processed/ledger.csv"

\* main of apply_rules.py without rules/rules.csv: load_rules raises after
\* the ledger is read and before anything is written
ApplyRulesNoFile(trace) ==
  /\ csvExists
  /\ last' = Run(trace, "rules", "error", FALSE, FALSE, <<>>, <<>>, <<>>)
  /\ UNCHANGED <<csvExists, hasCat, ledger>>

\* a category or subcategory column that read_csv made numbers or booleans:
\* the column has rows and none of them holds text
NumberColumn(rows, cat) ==
  /\ cat
  /\ \E f \in {"category", "subcategory"} :
       DtypeOf([i \in 1..Len(rows) |-> rows[i][f]]) # "object"

\* a rule of the file is not skipped (line 34) and sets text into the
\* category and subcategory columns (lines 41-42)
SetsText(file) ==
  \E k \in 1..Len(file) : CompileOf[ReadRulesOf[file][k]].cat # ""

\* main of apply_rules.py with the rule file file, the ledger written
ApplyRulesFile(trace) ==
  \E file \in RuleFiles :
    IF ~csvExists
    THEN /\ last' = Run(trace, "rules", "noledger", FALSE, FALSE, <<>>, file,
                        <<"Não encontrei data/processed/ledger.csv">>)
         /\ UNCHANGED <<csvExists, hasCat, ledger>>
    ELSE \E rules \in LoadRulesOf[file] :
           \E out \in {ApplyRulesMain(ledger, hasCat, rules)} :
             /\ ledger' = out.ledger
             /\ hasCat' = TRUE
             /\ last' = Run(trace, "rules", "ok", FALSE, out.held, <<>>, file,
                            <<"[OK] Regras aplicadas no ledger: " \o LedgerPath>>)
             /\ UNCHANGED csvExists

\* main of apply_rules.py when a rule sets text into a column of numbers.
\* What that does depends on the pandas installed, which the repository does
\* not pin: pandas 2 warns and makes the column object, its values as they
\* were (ApplyRulesFile), and pandas 3 raises TypeError before anything is
\* written.  Both outcomes are allowed, also for a rule that selects no row
ApplyRulesTypeError(trace) ==
  /\ csvExists
  /\ NumberColumn(ledger, hasCat)
  /\ \E file \in RuleFiles :
       /\ SetsText(file)
       /\ last' = Run(trace, "rules", "error", FALSE, FALSE, <<>>, file, <<>>)
  /\ UNCHANGED <<csvExists, hasCat, ledger>>

ApplyRules(trace) ==
  ApplyRulesNoFile(trace) \/ ApplyRulesFile(trace) \/ ApplyRulesTypeError(trace)

Next == (\E src \in Sources : ImportMain(FALSE, src)) \/ ApplyRules(FALSE)

\* the pipeline: any sequence of imports and rule runs, one at a time
Spec == Init /\ [][Next]_vars

NextTrace == (\E src \in Sources : ImportMain(TRUE, src)) \/ ApplyRules(TRUE)

\* the same pipeline, each run leaving its input and its output in last
SpecTrace == Init /\ [][NextTrace]_vars

(***************************************************************************)
(* Ledger identity and merge: C1, C2, C4.                                  *)
(***************************************************************************)
Range(f) == {f[i] : i \in DOMAIN f}

\* the rows of the persisted ledger whose tx_id cell is id
RowsWithId(rows, id) == {i \in 1..Len(rows) : rows[i].tx_id = id}

\* the rows of the ledger file as apply_rules.py loads them
Loaded(rows, cat) == ReadLedger(rows, cat, "rules")

ImportStep == last'.op \in Sources /\ last'.status = "ok"

\* C1: after any sequence of imports and rule runs, no two rows of the
\* persisted ledger have the same tx_id
C1_UniqueTxId ==
  \A i, j \in 1..Len(ledger) : ledger[i].tx_id = ledger[j].tx_id => i = j

\* C2: importing a statement file a second time, right after a first import
\* of the same file by the same importer, leaves the same set of rows and the
\* same row count, with exactly one row for each transaction of the file
C2_ImportTwice ==
  [][(/\ ImportStep
      /\ last.op = last'.op /\ last.status = "ok" /\ last.stmt = last'.stmt)
     => /\ Range(ledger') = Range(ledger)
        /\ Len(ledger') = Len(ledger)
        /\ \A r \in Range(ImportOf[last'.op][last'.stmt]) :
              Cardinality(RowsWithId(ledger', r.tx_id[2])) = 1]_vars

\* C4: an import leaves every row that was in the ledger in place, with the
\* same fields as loaded, and a transaction of the file whose tx_id is already
\* in the ledger adds no row
C4_ImportKeepsExisting ==
  [][ImportStep
     => /\ Len(ledger') >= Len(ledger)
        /\ \E old \in {Loaded(ledger, hasCat)}, new \in {Loaded(ledger', hasCat')} :
              \A i \in 1..Len(ledger) : new[i] = old[i]
        /\ \A r \in Range(ImportOf[last'.op][last'.stmt]) :
              RowsWithId(ledger, r.tx_id[2]) # {}
                => RowsWithId(ledger', r.tx_id[2]) = RowsWithId(ledger, r.tx_id[2])]_vars

(***************************************************************************)
(* Empty statement: C8.                                                    *)
(***************************************************************************)
\* C8: an import of a statement file with no <STMTTRN> block, by either
\* importer, ends in the error and leaves the ledger file as it was: same
\* rows, same columns, and no file if there was none
C8_EmptyStatementFails ==
  [][(last'.op \in Sources /\ last'.empty)
     => /\ last'.status = "error"
        /\ UNCHANGED <<csvExists, hasCat, ledger>>]_vars

\* an empty statement has just been refused next to a ledger that has rows
C8_Witness ==
  last.op \in Sources /\ last.empty /\ last.status = "error"
  /\ csvExists /\ Len(ledger) > 0

(***************************************************************************)
(* One-shot categorization: C3.                                            *)
(***************************************************************************)
RulesStep == last'.op = "rules" /\ last'.status = "ok"

\* C3: a run of apply_rules, whatever its rule file, drops no row and writes
\* back the category, subcategory and type it loaded for every row whose
\* loaded category is neither missing, nor empty, nor "Uncategorized"
C3_OneShot ==
  [][RulesStep
     => /\ Len(ledger') = Len(ledger)
        /\ \E old \in {Loaded(ledger, hasCat)} :
              \A i \in 1..Len(ledger) :
                ~IsDefault(old[i].category)
                  => /\ ledger'[i].category = WriteCell(old[i].category)
                     /\ ledger'[i].subcategory = WriteCell(old[i].subcategory)
                     /\ ledger'[i].type = WriteCell(old[i].type)]_vars

\* a rule that is not skipped has just met a matching row that already had
\* a category
C3_Witness == last.op = "rules" /\ last.status = "ok" /\ last.held

(***************************************************************************)
(* Rule application: C5, C6, C7.  Under SpecTrace last.rules is the rule   *)
(* file of the run, in file order.                                         *)
(***************************************************************************)
\* the category a rule of the file gives: its category cell, trimmed
CategoryOf == Table([r \in Rules |-> Strip(r.category)])

\* the subcategory a rule of the file gives: its subcategory cell, trimmed,
\* or its category when that cell is blank
SubcategoryOf ==
  Table([r \in Rules |->
           IF Strip(r.subcategory) = "" THEN Strip(r.category)
           ELSE Strip(r.subcategory)])

\* the rules of file with a category whose pattern matches the description
\* of row
Matching(file, row) ==
  {k \in 1..Len(file) :
     /\ file[k].category # ""
     /\ SearchOf[<<PyStr(ReadCell(file[k].pattern)), PyStr(row.description)>>]}

\* the rules of S with the smallest priority value
First(file, S) ==
  {k \in S : \A j \in S :
            ReadRulesOf[file][k].priority <= ReadRulesOf[file][j].priority}

\* C5: after load_rules and apply_rules, a row whose category was in the
\* default state has the category of a matching rule of smallest priority
\* value among the rules with a non-empty category (9999 for a missing or
\* non-numeric priority)
C5_PriorityOrdering ==
  [][RulesStep
     => \E old \in {Loaded(ledger, hasCat)} :
          \A i \in 1..Len(ledger) :
            (/\ IsDefault(old[i].category)
             /\ Matching(last'.rules, old[i]) # {})
            => \E k \in First(last'.rules, Matching(last'.rules, old[i])) :
                 ledger'[i].category = CategoryOf[last'.rules[k]]]_vars

\* C6: when every rule of the file has a category, a row whose category was
\* in the default state and that a rule matches gets, from a matching rule
\* of smallest priority value, the rule's category and, as subcategory, the
\* rule's subcategory or, when that cell is blank, the rule's category
C6_BlankSubcategory ==
  [][(RulesStep /\ \A k \in 1..Len(last'.rules) : last'.rules[k].category # "")
     => \E old \in {Loaded(ledger, hasCat)} :
          \A i \in 1..Len(ledger) :
            (/\ IsDefault(old[i].category)
             /\ Matching(last'.rules, old[i]) # {})
            => \E k \in First(last'.rules, Matching(last'.rules, old[i])) :
                 /\ ledger'[i].category = CategoryOf[last'.rules[k]]
                 /\ ledger'[i].subcategory = SubcategoryOf[last'.rules[k]]]_vars

\* the rule file without the rows whose category cell is empty
WithCategory(file) == SelectSeq(file, LAMBDA r : r.category # "")

\* C7: a run of apply_rules leaves the ledger as a run with the rule file
\* stripped of its rules without a category would
C7_EmptyCategorySkipped ==
  [][RulesStep
     => \E rules \in LoadRulesOf[WithCategory(last'.rules)] :
          ledger' = ApplyRulesMain(ledger, hasCat, rules).ledger]_vars

(***************************************************************************)
(* Dropped rows: C10.                                                      *)
(***************************************************************************)
\* the number of blocks of stmt that dropna removes
Dropped(src, stmt) == Len(stmt) - Len(ImportOf[src][stmt])

\* C10: what the caller of an import gets (the returned DataFrame with its
\* index, and the lines main prints) determines the number of dropped blocks:
\* no statement with another number of dropped blocks gives the same
C10_DroppedCountVisible ==
  (last.op \in Sources /\ last.status = "ok")
  => \A other \in Statements(last.op) :
       (/\ Len(other) > 0
        /\ ImportOf[last.op][other] = ImportOf[last.op][last.stmt]
        /\ \E pq \in BOOLEAN :
             ImportReport(last.op, ImportOf[last.op][other], pq) = last.printed)
       => Dropped(last.op, other) = Dropped(last.op, last.stmt)

(***************************************************************************)
(* Identity derivation: C9.  import_itau_ofx and import_nubank_ofx as pure *)
(* functions of a statement file of one block.                             *)
(***************************************************************************)
\* the blocks whose identity is derived: every mix of a primary reference
\* (absent, blank, present, or the bare separator), secondary references,
\* a date that parses or not, and an amount that is negative, the negative
\* zero, or no number
IdBlocks ==
  {[DTPOSTED |-> d, TRNAMT |-> a, MEMO |-> "UBER TRIP 123", NAME |-> "",
    FITID |-> f, CHECKNUM |-> c, REFNUM |-> r] :
     d \in {"20240115", "2024"}, a \in {"-45.90", "-0.00", "abc"},
     f \in {"", "\f", " F1", "|"}, c \in {"", "C1"}, r \in {"", "R1 "}}

InitId ==
  /\ csvExists = FALSE
  /\ hasCat = FALSE
  /\ ledger = <<>>
  /\ \E src \in Sources, block \in IdBlocks :
       last = [op |-> "block", src |-> src, block |-> block, rows |-> <<>>]

\* import_*_ofx on the statement file holding last.block
DeriveId ==
  /\ last.op = "block"
  /\ last' = [last EXCEPT !.op = "derived",
                          !.rows = ImportRows(last.src, <<last.block>>)]
  /\ UNCHANGED <<csvExists, hasCat, ledger>>

\* the importers applied to single blocks
SpecId == InitId /\ [][DeriveId]_vars

\* the key material of a block: its primary reference when there is one,
\* else (Itau) "REFNUM|CHECKNUM" unless both are blank, else the composite
\* "date|description|amount|source"
KeyMaterial(src, block, row) ==
  IF Strip(block.FITID) # "" THEN Strip(block.FITID)
  ELSE IF src = "itau" /\ (Strip(block.REFNUM) # "" \/ Strip(block.CHECKNUM) # "")
  THEN Strip(block.REFNUM) \o "|" \o Strip(block.CHECKNUM)
  ELSE CompositeKey(row.date, Val(row.description), row.amount, src)

\* C9: the tx_id of an imported row is the hash of its key material, taken
\* in the order primary reference, secondary references (Itau), composite
C9_KeyFallback ==
  (last.op = "derived" /\ Len(last.rows) = 1)
  => last.rows[1].tx_id
       = <<"str", hash_pandas_object(
                    KeyMaterial(last.src, last.block, last.rows[1]))>>

====
